---- MODULE Spec2Model ----
(***************************************************************************)
(* Model of src/python/app.py: a Flask backend that re-reads Markdown and  *)
(* YAML content from disk on every request and answers with JSON.          *)
(*                                                                         *)
(* Python strings are modelled as sequences of one-character strings, so   *)
(* that lower(), replace(), split(), int() and f-string formatting are     *)
(* computed character by character as CPython computes them.  Python       *)
(* dicts are modelled as functions whose DOMAIN is the set of keys.        *)
(***************************************************************************)
EXTENDS Integers, Sequences, FiniteSets, TLC

VARIABLES disk, last, reqs, heap, label, slug1, slug2, stage

vars == <<disk, last, reqs, heap, label, slug1, slug2, stage>>

(***************************************************************************)
(* Python string primitives                                                *)
(***************************************************************************)
UpperCase == <<"A","B","C","D","E","F","G","H","I","J","K","L","M",
               "N","O","P","Q","R","S","T","U","V","W","X","Y","Z">>

LowerCase == <<"a","b","c","d","e","f","g","h","i","j","k","l","m",
               "n","o","p","q","r","s","t","u","v","w","x","y","z">>

DigitChars == <<"0","1","2","3","4","5","6","7","8","9">>

LowerChar(c) ==
    IF \E i \in 1..Len(UpperCase) : UpperCase[i] = c
    THEN LowerCase[CHOOSE i \in 1..Len(UpperCase) : UpperCase[i] = c]
    ELSE c

\* str.lower()
lower(s) == [i \in 1..Len(s) |-> LowerChar(s[i])]

StartsWith(s, p) == Len(p) <= Len(s) /\ SubSeq(s, 1, Len(p)) = p

\* str.endswith(suffix)
endswith(s, p) == Len(p) <= Len(s) /\ SubSeq(s, Len(s) - Len(p) + 1, Len(s)) = p

\* str.replace(old, new) for a non-empty old: leftmost, non-overlapping
RECURSIVE replace(_, _, _)
replace(s, old, new) ==
    IF s = <<>> THEN <<>>
    ELSE IF StartsWith(s, old)
         THEN new \o replace(SubSeq(s, Len(old) + 1, Len(s)), old, new)
         ELSE <<s[1]>> \o replace(Tail(s), old, new)

\* str.split(sep) for a one-character sep: always at least one part
RECURSIVE split(_, _)
split(s, sep) ==
    IF \A i \in 1..Len(s) : s[i] # sep THEN <<s>>
    ELSE LET k == CHOOSE i \in 1..Len(s) :
                      s[i] = sep /\ \A j \in 1..(i - 1) : s[j] # sep
         IN  <<SubSeq(s, 1, k - 1)>> \o split(SubSeq(s, k + 1, Len(s)), sep)

\* str.strip() restricted to the space character
RECURSIVE lstrip(_)
lstrip(s) == IF s # <<>> /\ s[1] = " " THEN lstrip(Tail(s)) ELSE s

RECURSIVE rstrip(_)
rstrip(s) ==
    IF s # <<>> /\ s[Len(s)] = " " THEN rstrip(SubSeq(s, 1, Len(s) - 1)) ELSE s

strip(s) == rstrip(lstrip(s))

IsDigit(c) == \E i \in 1..Len(DigitChars) : DigitChars[i] = c

DigitVal(c) == (CHOOSE i \in 1..Len(DigitChars) : DigitChars[i] = c) - 1

\* the text int() reads digits from: surrounding blanks and one sign dropped
IntBody(s) ==
    LET t == strip(s)
    IN  IF t # <<>> /\ t[1] \in {"+", "-"} THEN Tail(t) ELSE t

IntNegative(s) == LET t == strip(s) IN t # <<>> /\ t[1] = "-"

\* int(s) raises ValueError unless this holds: digits, with single
\* underscores allowed between digits
IntParses(s) ==
    LET b == IntBody(s)
    IN  /\ b # <<>>
        /\ \A i \in 1..Len(b) : IsDigit(b[i]) \/ b[i] = "_"
        /\ IsDigit(b[1]) /\ IsDigit(b[Len(b)])
        /\ \A i \in 1..(Len(b) - 1) : ~(b[i] = "_" /\ b[i + 1] = "_")

RECURSIVE DigitsValue(_)
DigitsValue(b) ==
    IF b = <<>> THEN 0
    ELSE IF b[Len(b)] = "_" THEN DigitsValue(SubSeq(b, 1, Len(b) - 1))
    ELSE 10 * DigitsValue(SubSeq(b, 1, Len(b) - 1)) + DigitVal(b[Len(b)])

\* int(s) when it parses
IntValue(s) ==
    IF IntNegative(s) THEN 0 - DigitsValue(IntBody(s)) ELSE DigitsValue(IntBody(s))

\* str(i) as an f-string formats a non-negative int
RECURSIVE IntToStr(_)
IntToStr(i) ==
    IF i < 10 THEN <<DigitChars[i + 1]>>
    ELSE IntToStr(i \div 10) \o <<DigitChars[(i % 10) + 1]>>


(***************************************************************************)
(* Python dicts and the values yaml.safe_load returns                      *)
(***************************************************************************)
\* d.get(k, default)
Get(d, k, default) == IF k \in DOMAIN d THEN d[k] ELSE default

\* d[k] = v
Put(d, k, v) == [x \in (DOMAIN d) \cup {k} |-> IF x = k THEN v ELSE d[x]]

EmptyDict == [x \in {} |-> x]

\* a loaded document: None, or a mapping
PyNone == [isNone |-> TRUE, val |-> EmptyDict]

PyDict(d) == [isNone |-> FALSE, val |-> d]

(***************************************************************************)
(* Content on disk.  A file is missing, unreadable, not parseable as YAML, *)
(* empty (zero bytes or only comments), or holds a YAML mapping.           *)
(***************************************************************************)
FileMissing == [kind |-> "missing", content |-> EmptyDict]

FileUnreadable == [kind |-> "unreadable", content |-> EmptyDict]

FileMalformed == [kind |-> "malformed", content |-> EmptyDict]

FileEmpty == [kind |-> "empty", content |-> EmptyDict]

FileYaml(doc) == [kind |-> "yaml", content |-> doc]

FileText(text) == [kind |-> "text", content |-> text]

\* project records of the projects file
ProjAlpha == [title |-> "Alpha"]

ProjBeta == [title |-> "Beta", capabilities |-> <<"Own capability">>]

ProjGamma ==
    [title |-> "Gamma", id |-> <<"o","l","d">>,
     industry_applications |->
         <<[industry |-> "Retail", application |-> "Own application"]>>]

ProjDelta ==
    [title |-> "Delta", capabilities |-> <<"Cap one", "Cap two">>,
     industry_applications |-> <<>>]

\* category names
NameAI == <<"A","I"," ","&"," ","T","e","c","h","n","o","l","o","g","y"," ","I","n","n","o","v","a","t","i","o","n">>

NameCat == <<"C","a","t">>

NameCatLower == <<"c","a","t">>

NameMisc == <<"M","i","s","c">>

NameTwoWords == <<"B","i","g"," ","D","a","t","a">>

CatAI == [category |-> NameAI, projects |-> <<ProjAlpha, ProjBeta>>]

CatPlain == [category |-> NameCat, projects |-> <<ProjAlpha, ProjGamma>>]

CatLower == [category |-> NameCatLower, projects |-> <<ProjBeta>>]

CatNoList == [category |-> NameMisc]

CatTwoWords == [category |-> NameTwoWords, projects |-> <<ProjDelta>>]

\* the contents the projects file takes
ProjectFiles ==
    { FileYaml([projects |-> <<CatAI>>]),
      FileYaml([projects |-> <<CatTwoWords, CatPlain, CatNoList>>]),
      FileYaml([projects |-> <<CatLower, CatPlain>>]),
      FileYaml([projects |-> <<>>]),
      FileYaml([title |-> "Portfolio"]),
      FileMissing, FileUnreadable, FileMalformed, FileEmpty }

\* a directory: exists or not, and maps file names to files
DirMissing == [exists |-> FALSE, files |-> EmptyDict]

Dir(files) == [exists |-> TRUE, files |-> files]

CvName == <<"r","e","s","u","m","e",".","m","d">>

CvOther == <<"n","o","t","e","s",".","t","x","t">>

CvDirOk == Dir([n \in {CvName, CvOther} |-> FileText("# Resume")])

CvDirs ==
    { CvDirOk,
      Dir([n \in {CvName} |-> FileUnreadable]),
      DirMissing }

IndName == <<"f","i","n","a","n","c","e",".","y","a","m","l">>

IndOther == <<"R","E","A","D","M","E",".","m","d">>

IndNameTwo == <<"r","e","t","a","i","l",".","y","a","m","l">>

IndDoc == [name |-> "Finance"]

IndustryDirOk == Dir([n \in {IndName, IndOther} |-> FileYaml(IndDoc)])

IndustryDirs ==
    { IndustryDirOk,
      Dir([n \in {IndName, IndNameTwo} |->
              IF n = IndName THEN FileMalformed ELSE FileEmpty]),
      DirMissing }

DefaultProjectFile == FileYaml([projects |-> <<CatAI>>])

DiskStates ==
    { [projects |-> f, cv |-> CvDirOk, industries |-> IndustryDirOk] :
          f \in ProjectFiles }
    \cup
    { [projects |-> DefaultProjectFile, cv |-> c, industries |-> IndustryDirOk] :
          c \in CvDirs }
    \cup
    { [projects |-> DefaultProjectFile, cv |-> CvDirOk, industries |-> i] :
          i \in IndustryDirs }

(***************************************************************************)
(* Content Store                                                           *)
(***************************************************************************)
\* open() and yaml.safe_load() inside try/except Exception: return {}
load_yaml_data(file) ==
    CASE file.kind = "yaml"  -> PyDict(file.content)
      [] file.kind = "empty" -> PyNone
      [] OTHER               -> PyDict(EmptyDict)

\* markdown.markdown(content): the rendered HTML of a text
markdown(content) == <<"html", content>>

\* a loader's outcome: a value, or an exception that leaves the handler
Returned(v) == [raised |-> FALSE, exc |-> "", value |-> v]

Raised(exc) == [raised |-> TRUE, exc |-> exc, value |-> EmptyDict]

load_cv_data(dir) ==
    IF ~dir.exists THEN Raised("FileNotFoundError")
    ELSE LET cv_files == {f \in DOMAIN dir.files : endswith(f, <<".","m","d">>)}
         IN  IF \E f \in cv_files : dir.files[f].kind # "text"
             THEN Raised("OSError")
             ELSE Returned([f \in cv_files |-> markdown(dir.files[f].content)])

load_industry_data(dir) ==
    IF ~dir.exists THEN Raised("FileNotFoundError")
    ELSE LET industry_files ==
                 {f \in DOMAIN dir.files : endswith(f, <<".","y","a","m","l">>)}
             industry_id(f) == replace(f, <<".","y","a","m","l">>, <<>>)
         IN  Returned([i \in {industry_id(f) : f \in industry_files} |->
                          load_yaml_data(dir.files[
                              CHOOSE f \in industry_files : industry_id(f) = i])])

load_project_data(d) == load_yaml_data(d.projects)

(***************************************************************************)
(* HTTP responses                                                          *)
(***************************************************************************)
\* jsonify(v): status 200 with the JSON document of v
jsonify(v) == [status |-> 200, json |-> v]

\* jsonify({"error": msg}), code
Error(code, msg) == [status |-> code, json |-> [error |-> msg]]

\* an exception that leaves the view function: Flask answers 500
Unhandled(exc) == [status |-> 500, json |-> [exception |-> exc]]

\* what a handler leaves behind: its response and the object it loaded,
\* with the writes the handler made to it
Outcome(resp, data) == [response |-> resp, projects_data |-> data]

(***************************************************************************)
(* Identifier Normalizer: the expression                                   *)
(*   category['category'].lower().replace(' & ', '-').replace(' ', '-')    *)
(* which the source repeats in each of the three project handlers          *)
(***************************************************************************)
\* in get_projects
slugify(name) == replace(replace(lower(name), <<" ","&"," ">>, <<"-">>), <<" ">>, <<"-">>)

\* a variant that forgets the replacement of " & "
category_normalized_spaces_only(category) ==
    replace(lower(category["category"]), <<" ">>, <<"-">>)

\* in get_projects_by_category
category_normalized(category) ==
    replace(replace(lower(category["category"]), <<" ","&"," ">>, <<"-">>), <<" ">>, <<"-">>)

\* in get_project
project_category_normalized(category) ==
    replace(replace(lower(category["category"]), <<" ","&"," ">>, <<"-">>), <<" ">>, <<"-">>)

(***************************************************************************)
(* Handlers of the cv and industry endpoints                               *)
(***************************************************************************)
get_cv(d) ==
    LET cv_data == load_cv_data(d.cv)
    IN  IF cv_data.raised THEN Unhandled(cv_data.exc) ELSE jsonify(cv_data.value)

get_industries(d) ==
    LET industries == load_industry_data(d.industries)
    IN  IF industries.raised THEN Unhandled(industries.exc)
        ELSE jsonify(industries.value)

get_industry(d, industry_id) ==
    LET industries == load_industry_data(d.industries)
    IN  IF industries.raised THEN Unhandled(industries.exc)
        ELSE IF industry_id \in DOMAIN industries.value
             THEN jsonify(industries.value[industry_id])
             ELSE Error(404, "Industry not found")

(***************************************************************************)
(* Project Lookup                                                          *)
(***************************************************************************)
\* the body of get_projects, after projects_data = load_project_data()
get_projects_body(projects_data) ==
    IF projects_data.isNone
    THEN Outcome(Unhandled("AttributeError"), projects_data)
    ELSE LET cats == Get(projects_data.val, "projects", <<>>)
             categories ==
                 [k \in 1..Len(cats) |->
                     [id |-> slugify(cats[k]["category"]),
                      name |-> cats[k]["category"],
                      projectCount |-> Len(Get(cats[k], "projects", <<>>))]]
         IN  Outcome(jsonify([categories |-> categories]), projects_data)

\* for i, project in enumerate(projects): project['id'] = f"{category_id}-{i}"
AddIds(projects, category_id) ==
    [i \in 1..Len(projects) |->
        Put(projects[i], "id", category_id \o <<"-">> \o IntToStr(i - 1))]

\* the category dict after its project records were written to; the list
\* that .get('projects', []) makes up for a missing key is not attached
WithProjects(category, projects) ==
    IF "projects" \in DOMAIN category
    THEN [category EXCEPT !["projects"] = projects]
    ELSE category

\* the loaded document with category k replaced
WithCategory(projects_data, k, category) ==
    PyDict([projects_data.val EXCEPT !["projects"] =
               [@ EXCEPT ![k] = category]])

\* the for loop of get_projects_by_category, from category k on
RECURSIVE ScanCategory(_, _, _, _)
ScanCategory(projects_data, cats, k, category_id) ==
    IF k > Len(cats)
    THEN Outcome(Error(404, "Category not found"), projects_data)
    ELSE IF category_normalized(cats[k]) = category_id
         THEN LET projects == AddIds(Get(cats[k], "projects", <<>>), category_id)
              IN  Outcome(jsonify([category |-> cats[k]["category"],
                                   projects |-> projects]),
                          WithCategory(projects_data, k,
                                       WithProjects(cats[k], projects)))
         ELSE ScanCategory(projects_data, cats, k + 1, category_id)

\* the body of get_projects_by_category
get_projects_by_category_body(projects_data, category_id) ==
    IF projects_data.isNone
    THEN Outcome(Unhandled("AttributeError"), projects_data)
    ELSE ScanCategory(projects_data, Get(projects_data.val, "projects", <<>>),
                      1, category_id)

DefaultIndustryApplications ==
    << [industry |-> "Financial Services",
        application |-> "Enhances regulatory compliance while enabling innovation"],
       [industry |-> "Technology Consulting",
        application |-> "Demonstrates expertise in complex system integration"],
       [industry |-> "Digital Transformation",
        application |-> "Shows ability to reimagine processes with technology"] >>

DefaultCapabilities ==
    << "Strategic vision and planning",
       "Technical implementation expertise",
       "Cross-functional team leadership",
       "Innovation and creative problem-solving" >>

\* if 'industry_applications' not in project: ...
AddIndustryApplications(project) ==
    IF "industry_applications" \notin DOMAIN project
    THEN Put(project, "industry_applications", DefaultIndustryApplications)
    ELSE project

\* a variant that overwrites the stored capabilities
AddCapabilitiesAlways(project) ==
    Put(project, "capabilities", DefaultCapabilities)

\* if 'capabilities' not in project: ...
AddCapabilities(project) ==
    IF "capabilities" \notin DOMAIN project
    THEN Put(project, "capabilities", DefaultCapabilities)
    ELSE project

\* if 0 <= project_index < len(projects)
IndexInRange(project_index, projects) ==
    0 <= project_index /\ project_index < Len(projects)

\* the for loop of get_project, from category k on: a category whose slug
\* matches but whose list is too short does not end the scan
RECURSIVE ScanProject(_, _, _, _, _, _)
ScanProject(projects_data, cats, k, category_id, project_index, project_id) ==
    IF k > Len(cats)
    THEN Outcome(Error(404, "Project not found"), projects_data)
    ELSE LET projects == Get(cats[k], "projects", <<>>)
         IN  IF /\ project_category_normalized(cats[k]) = category_id
                /\ IndexInRange(project_index, projects)
             THEN LET project ==
                          AddCapabilities(AddIndustryApplications(
                              Put(projects[project_index + 1], "id", project_id)))
                  IN  Outcome(jsonify(project),
                              WithCategory(projects_data, k,
                                  WithProjects(cats[k],
                                      [projects EXCEPT ![project_index + 1] =
                                                            project])))
             ELSE ScanProject(projects_data, cats, k + 1, category_id,
                              project_index, project_id)

\* a variant that splits at the last "-" only, as rsplit('-', 1) does
ProjectIdPartsFromRight(project_id) ==
    LET parts == split(project_id, "-")
    IN  IF Len(parts) < 2 THEN parts
        ELSE <<SubSeq(project_id, 1, Len(project_id) - Len(parts[Len(parts)]) - 1),
               parts[Len(parts)]>>

\* parts = project_id.split('-')
ProjectIdParts(project_id) == split(project_id, "-")

\* the body of get_project, after projects_data = load_project_data()
get_project_body(projects_data, project_id) ==
    LET parts == ProjectIdParts(project_id)
    IN  IF Len(parts) < 2
        THEN Outcome(Error(400, "Invalid project ID"), projects_data)
        ELSE IF ~IntParses(parts[2])
        THEN Outcome(Error(400, "Invalid project index"), projects_data)
        ELSE IF projects_data.isNone
        THEN Outcome(Unhandled("AttributeError"), projects_data)
        ELSE ScanProject(projects_data, Get(projects_data.val, "projects", <<>>),
                         1, parts[1], IntValue(parts[2]), project_id)

(***************************************************************************)
(* Industry Relevance Mapper                                               *)
(***************************************************************************)
KeyFinancial == <<"f","i","n","a","n","c","i","a","l","-","s","e","r","v","i","c","e","s">>

KeyTechConsulting == <<"t","e","c","h","-","c","o","n","s","u","l","t","i","n","g">>

KeyAI == <<"a","i","-","i","m","p","l","e","m","e","n","t","a","t","i","o","n">>

KeyDigital == <<"d","i","g","i","t","a","l","-","t","r","a","n","s","f","o","r","m","a","t","i","o","n">>

KeyStartup == <<"s","t","a","r","t","u","p","-","i","n","n","o","v","a","t","i","o","n">>

KeyCustom == <<"c","u","s","t","o","m">>

relevance_map ==
    [k \in {KeyFinancial, KeyTechConsulting, KeyAI, KeyDigital, KeyStartup,
            KeyCustom} |->
        CASE k = KeyFinancial ->
               [relevant_projects |->
                    << <<"a","i","-","t","e","c","h","n","o","l","o","g","y","-","i","n","n","o","v","a","t","i","o","n","-","0">>,
                       <<"a","i","-","t","e","c","h","n","o","l","o","g","y","-","i","n","n","o","v","a","t","i","o","n","-","1">>,
                       <<"b","u","s","i","n","e","s","s","-","t","r","a","n","s","f","o","r","m","a","t","i","o","n","-","i","n","n","o","v","a","t","i","o","n","-","2">> >>,
                highlight_projects |-> << <<"a","i","-","t","e","c","h","n","o","l","o","g","y","-","i","n","n","o","v","a","t","i","o","n","-","0">> >>]
          [] k = KeyTechConsulting ->
               [relevant_projects |->
                    << <<"a","i","-","t","e","c","h","n","o","l","o","g","y","-","i","n","n","o","v","a","t","i","o","n","-","1">>,
                       <<"b","u","s","i","n","e","s","s","-","t","r","a","n","s","f","o","r","m","a","t","i","o","n","-","i","n","n","o","v","a","t","i","o","n","-","0">>,
                       <<"b","u","s","i","n","e","s","s","-","t","r","a","n","s","f","o","r","m","a","t","i","o","n","-","i","n","n","o","v","a","t","i","o","n","-","2">> >>,
                highlight_projects |->
                    << <<"b","u","s","i","n","e","s","s","-","t","r","a","n","s","f","o","r","m","a","t","i","o","n","-","i","n","n","o","v","a","t","i","o","n","-","2">> >>]
          [] k = KeyAI ->
               [relevant_projects |->
                    << <<"a","i","-","t","e","c","h","n","o","l","o","g","y","-","i","n","n","o","v","a","t","i","o","n","-","0">>,
                       <<"a","i","-","t","e","c","h","n","o","l","o","g","y","-","i","n","n","o","v","a","t","i","o","n","-","1">>,
                       <<"a","i","-","t","e","c","h","n","o","l","o","g","y","-","i","n","n","o","v","a","t","i","o","n","-","2">> >>,
                highlight_projects |-> << <<"a","i","-","t","e","c","h","n","o","l","o","g","y","-","i","n","n","o","v","a","t","i","o","n","-","1">> >>]
          [] k = KeyDigital ->
               [relevant_projects |->
                    << <<"s","t","r","a","t","e","g","i","c","-","v","i","s","i","o","n","-","s","y","s","t","e","m","s","-","t","h","i","n","k","i","n","g","-","1">>,
                       <<"b","u","s","i","n","e","s","s","-","t","r","a","n","s","f","o","r","m","a","t","i","o","n","-","i","n","n","o","v","a","t","i","o","n","-","0">>,
                       <<"b","u","s","i","n","e","s","s","-","t","r","a","n","s","f","o","r","m","a","t","i","o","n","-","i","n","n","o","v","a","t","i","o","n","-","1">> >>,
                highlight_projects |->
                    << <<"b","u","s","i","n","e","s","s","-","t","r","a","n","s","f","o","r","m","a","t","i","o","n","-","i","n","n","o","v","a","t","i","o","n","-","0">> >>]
          [] k = KeyStartup ->
               [relevant_projects |->
                    << <<"b","u","s","i","n","e","s","s","-","t","r","a","n","s","f","o","r","m","a","t","i","o","n","-","i","n","n","o","v","a","t","i","o","n","-","1">>,
                       <<"c","r","e","a","t","i","v","e","-","c","o","n","c","e","p","t","u","a","l","-","d","e","v","e","l","o","p","m","e","n","t","-","0">>,
                       <<"c","r","e","a","t","i","v","e","-","c","o","n","c","e","p","t","u","a","l","-","d","e","v","e","l","o","p","m","e","n","t","-","1">> >>,
                highlight_projects |->
                    << <<"c","r","e","a","t","i","v","e","-","c","o","n","c","e","p","t","u","a","l","-","d","e","v","e","l","o","p","m","e","n","t","-","1">> >>]
          [] OTHER ->
               [relevant_projects |->
                    << <<"a","i","-","t","e","c","h","n","o","l","o","g","y","-","i","n","n","o","v","a","t","i","o","n","-","0">>,
                       <<"s","t","r","a","t","e","g","i","c","-","v","i","s","i","o","n","-","s","y","s","t","e","m","s","-","t","h","i","n","k","i","n","g","-","0">>,
                       <<"b","u","s","i","n","e","s","s","-","t","r","a","n","s","f","o","r","m","a","t","i","o","n","-","i","n","n","o","v","a","t","i","o","n","-","0">>,
                       <<"c","r","e","a","t","i","v","e","-","c","o","n","c","e","p","t","u","a","l","-","d","e","v","e","l","o","p","m","e","n","t","-","0">> >>,
                highlight_projects |->
                    << <<"s","t","r","a","t","e","g","i","c","-","v","i","s","i","o","n","-","s","y","s","t","e","m","s","-","t","h","i","n","k","i","n","g","-","0">>,
                       <<"a","i","-","t","e","c","h","n","o","l","o","g","y","-","i","n","n","o","v","a","t","i","o","n","-","0">> >>]]

\* a variant that answers 404 for an industry the table does not hold
get_industry_project_relevance_strict(industry_id) ==
    IF industry_id \in DOMAIN relevance_map
    THEN jsonify(relevance_map[industry_id])
    ELSE Error(404, "Industry not found")

get_industry_project_relevance(industry_id) ==
    IF industry_id \in DOMAIN relevance_map
    THEN jsonify(relevance_map[industry_id])
    ELSE jsonify(relevance_map[KeyCustom])

(***************************************************************************)
(* Request parameters                                                      *)
(***************************************************************************)
\* the largest project index a request asks for
MaxIndex == 2

\* category slugs a client asks for: those of the category names, and others
SlugInputs ==
    { slugify(NameAI), slugify(NameCat), slugify(NameMisc),
      slugify(NameTwoWords), <<"b","a","d","c","a","t">>, <<"C","a","t">> }

\* what a client puts where the index belongs
IndexInputs == { IntToStr(i) : i \in 0..MaxIndex } \cup { <<"x">>, <<>>, <<" ","1">> }

\* what a client appends after the index
TrailerInputs == { <<"e","x","t","r","a">>, <<>> }

ProjectIdInputs ==
    (SlugInputs \ { <<"C","a","t">> })
    \cup { s \o <<"-">> \o i : s \in SlugInputs \ { <<"C","a","t">> }, i \in IndexInputs }
    \cup { s \o <<"-">> \o i \o <<"-">> \o t :
              s \in { slugify(NameAI), slugify(NameCat), <<"b","a","d","c","a","t">> },
              i \in IndexInputs, t \in TrailerInputs }

IndustryIdInputs == { <<"f","i","n","a","n","c","e">>, <<"r","e","t","a","i","l">>, <<"u","n","k","n","o","w","n","-","i","n","d","u","s","t","r","y">> }

RelevanceIdInputs == (DOMAIN relevance_map) \cup IndustryIdInputs

(***************************************************************************)
(* The server handling one request at a time: a handler loads, computes    *)
(* and answers in one step.  last is the latest exchange: the endpoint,    *)
(* its parameter, the content the handler read and the response.           *)
(***************************************************************************)
NoParam == <<>>

Exchange(endpoint, param, read, response) ==
    [endpoint |-> endpoint, param |-> param, read |-> read, response |-> response]

NoExchange == Exchange("none", NoParam, DirMissing, jsonify(EmptyDict))

Requests == {"r1", "r2"}

IdleRequest == [pc |-> "idle", endpoint |-> "none", param |-> NoParam,
                read |-> FileMissing, slot |-> "none"]

Init ==
    /\ disk \in DiskStates
    /\ last = NoExchange
    /\ reqs = [r \in Requests |-> IdleRequest]
    /\ heap = EmptyDict
    /\ label = <<>>
    /\ slug1 = <<>>
    /\ slug2 = <<>>
    /\ stage = "start"

GetCv ==
    /\ last' = Exchange("cv", NoParam, disk.cv, get_cv(disk))
    /\ UNCHANGED <<disk, reqs, heap, label, slug1, slug2, stage>>

GetIndustries ==
    /\ last' = Exchange("industries", NoParam, disk.industries,
                        get_industries(disk))
    /\ UNCHANGED <<disk, reqs, heap, label, slug1, slug2, stage>>

GetIndustry ==
    /\ \E industry_id \in IndustryIdInputs :
          last' = Exchange("industry", industry_id, disk.industries,
                           get_industry(disk, industry_id))
    /\ UNCHANGED <<disk, reqs, heap, label, slug1, slug2, stage>>

GetProjects ==
    /\ last' = Exchange("projects", NoParam, disk.projects,
                        get_projects_body(load_project_data(disk)).response)
    /\ UNCHANGED <<disk, reqs, heap, label, slug1, slug2, stage>>

GetProjectsByCategory ==
    /\ \E category_id \in SlugInputs :
          last' = Exchange("category", category_id, disk.projects,
                           get_projects_by_category_body(
                               load_project_data(disk), category_id).response)
    /\ UNCHANGED <<disk, reqs, heap, label, slug1, slug2, stage>>

GetProject ==
    /\ \E project_id \in ProjectIdInputs :
          last' = Exchange("project", project_id, disk.projects,
                           get_project_body(load_project_data(disk),
                                            project_id).response)
    /\ UNCHANGED <<disk, reqs, heap, label, slug1, slug2, stage>>

GetIndustryProjectRelevance ==
    /\ \E industry_id \in RelevanceIdInputs :
          last' = Exchange("relevance", industry_id, FileMissing,
                           get_industry_project_relevance(industry_id))
    /\ UNCHANGED <<disk, reqs, heap, label, slug1, slug2, stage>>

\* somebody edits the content directories while the server runs
ExternalWrite ==
    /\ disk' \in DiskStates \ {disk}
    /\ UNCHANGED <<last, reqs, heap, label, slug1, slug2, stage>>

Next ==
    \/ GetCv
    \/ GetIndustries
    \/ GetIndustry
    \/ GetProjects
    \/ GetProjectsByCategory
    \/ GetProject
    \/ GetIndustryProjectRelevance
    \/ ExternalWrite

Spec == Init /\ [][Next]_vars

(***************************************************************************)
(* The server handling requests concurrently (Flask serves each request on *)
(* a thread of its own).  A handler first loads the projects file into an  *)
(* object of its own, and later computes on that object, writes ids and    *)
(* defaults into it, and answers.  heap maps the live objects to their     *)
(* values; an object lives while a request holds it.                       *)
(***************************************************************************)
\* a variant in which every request gets the same module-level object
LoadSlotShared(r) == "shared"

\* projects_data = load_project_data(): yaml.safe_load builds a new object
\* on every call, bound to a local variable of the request
LoadSlot(r) == r

\* the body of the handler of an endpoint
Body(endpoint, projects_data, param) ==
    CASE endpoint = "projects" -> get_projects_body(projects_data)
      [] endpoint = "category" -> get_projects_by_category_body(projects_data, param)
      [] OTHER                 -> get_project_body(projects_data, param)

ConcDisks ==
    { [projects |-> f, cv |-> CvDirOk, industries |-> IndustryDirOk] :
          f \in { FileYaml([projects |-> <<CatLower, CatPlain>>]),
                  FileYaml([projects |-> <<CatPlain, CatNoList>>]),
                  FileEmpty } }

ConcInputs ==
    { <<"projects", NoParam>>, <<"category", <<"c","a","t">>>>, <<"category", <<"m","i","s","c">>>>,
      <<"project", <<"c","a","t","-","0">>>>, <<"project", <<"c","a","t","-","1","-","e","x","t","r","a">>>>,
      <<"project", <<"c","a","t","-","x">>>> }

InitConc ==
    /\ disk \in ConcDisks
    /\ last = NoExchange
    /\ reqs = [r \in Requests |-> IdleRequest]
    /\ heap = EmptyDict
    /\ label = <<>>
    /\ slug1 = <<>>
    /\ slug2 = <<>>
    /\ stage = "start"

\* a request arrives and its handler runs up to the return of
\* load_project_data()
Load(r) ==
    /\ reqs[r].pc = "idle"
    /\ \E input \in ConcInputs :
          /\ heap' = Put(heap, LoadSlot(r), load_project_data(disk))
          /\ reqs' = [reqs EXCEPT ![r] =
                         [pc |-> "loaded", endpoint |-> input[1],
                          param |-> input[2], read |-> disk.projects,
                          slot |-> LoadSlot(r)]]
    /\ UNCHANGED <<disk, last, label, slug1, slug2, stage>>

\* the handler runs from there to its return
Respond(r) ==
    /\ reqs[r].pc = "loaded"
    /\ LET req  == reqs[r]
           out  == Body(req.endpoint, heap[req.slot], req.param)
           held == \E o \in Requests \ {r} :
                       reqs[o].pc = "loaded" /\ reqs[o].slot = req.slot
       IN  /\ last' = Exchange(req.endpoint, req.param, req.read, out.response)
           /\ heap' = IF held THEN Put(heap, req.slot, out.projects_data)
                      ELSE [s \in (DOMAIN heap) \ {req.slot} |-> heap[s]]
           /\ reqs' = [reqs EXCEPT ![r] = IdleRequest]
    /\ UNCHANGED <<disk, label, slug1, slug2, stage>>

\* somebody edits the projects file while requests are in flight
ExternalWriteConc ==
    /\ disk' \in ConcDisks \ {disk}
    /\ UNCHANGED <<last, reqs, heap, label, slug1, slug2, stage>>

NextConc ==
    \/ \E r \in Requests : Load(r)
    \/ \E r \in Requests : Respond(r)
    \/ ExternalWriteConc

SpecConc == InitConc /\ [][NextConc]_vars

(***************************************************************************)
(* A client that lists the categories of a file whose first category has   *)
(* an arbitrary label, and follows the ids listed; and slugify applied     *)
(* once and twice to the label.                                            *)
(***************************************************************************)
\* the longest label
MaxLabelLen == 4

LabelChars == {"A", "a", " ", "&", "-"}

Labels == UNION { [1..n -> LabelChars] : n \in 1..MaxLabelLen }

LabelFile(l) ==
    FileYaml([projects |->
                 << [category |-> l, projects |-> <<ProjAlpha, ProjBeta>>],
                    CatPlain >>])

InitSlug ==
    /\ label \in Labels
    /\ disk = [projects |-> LabelFile(label), cv |-> CvDirOk,
               industries |-> IndustryDirOk]
    /\ last = NoExchange
    /\ reqs = [r \in Requests |-> IdleRequest]
    /\ heap = EmptyDict
    /\ slug1 = <<>>
    /\ slug2 = <<>>
    /\ stage = "start"

SlugifyOnce ==
    /\ stage = "start"
    /\ slug1' = slugify(label)
    /\ stage' = "once"
    /\ UNCHANGED <<disk, last, reqs, heap, label, slug2>>

SlugifyTwice ==
    /\ stage = "once"
    /\ slug2' = slugify(slug1)
    /\ stage' = "twice"
    /\ UNCHANGED <<disk, last, reqs, heap, label, slug1>>

\* the client asks for the projects of a category id it was given
FollowListed ==
    /\ last.endpoint = "projects"
    /\ last.response.status = 200
    /\ \E k \in 1..Len(last.response.json["categories"]) :
          LET category_id == last.response.json["categories"][k]["id"]
          IN  last' = Exchange("category", category_id, disk.projects,
                               get_projects_by_category_body(
                                   load_project_data(disk), category_id).response)
    /\ UNCHANGED <<disk, reqs, heap, label, slug1, slug2, stage>>

NextSlug ==
    \/ SlugifyOnce
    \/ SlugifyTwice
    \/ GetProjects
    \/ FollowListed

SpecSlug == InitSlug /\ [][NextSlug]_vars

(***************************************************************************)
(* Vocabulary of the properties                                            *)
(***************************************************************************)
\* the categories of a projects file, in file order
CategoriesOf(file) ==
    IF file.kind = "yaml" THEN Get(file.content, "projects", <<>>) ELSE <<>>

\* the project list of a category
ProjectsOf(category) == Get(category, "projects", <<>>)

\* category k is the first of the file with its slug
FirstWithSlug(cats, k) ==
    \A j \in 1..(k - 1) :
        slugify(cats[j]["category"]) # slugify(cats[k]["category"])

\* the identifier {categorySlug}-{index}
ProjectIdOf(category, i) == slugify(category["category"]) \o <<"-">> \o IntToStr(i)

HasDash(s) == \E i \in 1..Len(s) : s[i] = "-"

\* the stored record a project id resolves to: in the first category whose
\* slug is the first part and whose list holds the index
SelectedProject(file, project_id) ==
    LET parts == split(project_id, "-")
        cats  == CategoriesOf(file)
        idx   == IntValue(parts[2])
        hits  == {k \in 1..Len(cats) :
                     /\ slugify(cats[k]["category"]) = parts[1]
                     /\ 0 <= idx /\ idx < Len(ProjectsOf(cats[k]))}
        k     == CHOOSE h \in hits : \A j \in hits : h <= j
    IN  ProjectsOf(cats[k])[idx + 1]

Succeeded(exchange) == exchange.response.status = 200

(***************************************************************************)
(* Properties                                                              *)
(***************************************************************************)
\* C1: project identifiers round-trip.  For every category c of the file
\* read (the first with its slug) and every index i of its project list,
\* getProject(slugify(c.name) + "-" + i) succeeds and returns the i-th project
\* of c with its id set to that identifier.
C1_RoundTrip ==
    last.endpoint = "project" =>
        LET cats == CategoriesOf(last.read)
        IN  \A k \in 1..Len(cats) :
              \A i \in 0..(Len(ProjectsOf(cats[k])) - 1) :
                (FirstWithSlug(cats, k) /\ last.param = ProjectIdOf(cats[k], i)) =>
                    /\ Succeeded(last)
                    /\ last.response.json["id"] = last.param
                    /\ last.response.json["title"] = ProjectsOf(cats[k])[i + 1]["title"]

\* C2: getProject classifies every input into exactly one outcome: 400
\* "invalid project id" iff the id holds no "-"; 400 "invalid project index"
\* iff it holds one and the second part is no integer; otherwise 404 iff no
\* category has the first part as slug with the index inside its list;
\* otherwise success.
C2_Classification ==
    last.endpoint = "project" =>
        LET parts == split(last.param, "-")
            cats  == CategoriesOf(last.read)
        IN  IF ~HasDash(last.param)
            THEN last.response = Error(400, "Invalid project ID")
            ELSE IF ~IntParses(parts[2])
            THEN last.response = Error(400, "Invalid project index")
            ELSE IF \E k \in 1..Len(cats) :
                        /\ slugify(cats[k]["category"]) = parts[1]
                        /\ 0 <= IntValue(parts[2])
                        /\ IntValue(parts[2]) < Len(ProjectsOf(cats[k]))
            THEN Succeeded(last)
            ELSE last.response = Error(404, "Project not found")

\* C3: file-read failures never escape the Content Store: whatever the state
\* of the content directories and files, every endpoint answers 2xx or 4xx,
\* never 5xx.
C3_NoServerError == last.response.status < 500

\* C4: for every category c of the file read (the first with its slug),
\* getCategoryProjects(slugify(c.name)) returns c's name and exactly c's
\* projects in order, project i carrying id "{slug}-{i}"; for a slug matching
\* no category it answers 404 "Category not found".
C4_CategoryProjects ==
    last.endpoint = "category" =>
        LET cats == CategoriesOf(last.read)
        IN  /\ \A k \in 1..Len(cats) :
                 (FirstWithSlug(cats, k)
                      /\ last.param = slugify(cats[k]["category"])) =>
                     LET stored == ProjectsOf(cats[k])
                     IN  /\ Succeeded(last)
                         /\ last.response.json["category"] = cats[k]["category"]
                         /\ Len(last.response.json["projects"]) = Len(stored)
                         /\ \A i \in 1..Len(stored) :
                              last.response.json["projects"][i] =
                                  Put(stored[i], "id",
                                      last.param \o <<"-">> \o IntToStr(i - 1))
            /\ (\A k \in 1..Len(cats) :
                    last.param # slugify(cats[k]["category"])) =>
                   last.response = Error(404, "Category not found")

\* C5: getRelevance never signals an error: for a key of the six-key table it
\* returns that key's entry, for every other id exactly what it returns for
\* "custom", with the table's sequences in order.
C5_RelevanceTotal ==
    /\ Cardinality(DOMAIN relevance_map) = 6
    /\ last.endpoint = "relevance" =>
         /\ Succeeded(last)
         /\ last.param \in DOMAIN relevance_map =>
                last.response.json = relevance_map[last.param]
         /\ last.param \notin DOMAIN relevance_map =>
                /\ last.response = get_industry_project_relevance(KeyCustom)
                /\ last.response.json = relevance_map[KeyCustom]

\* C5 happens: an unknown industry was answered with the custom entry
C5_Witness ==
    /\ last.endpoint = "relevance"
    /\ last.param = <<"u","n","k","n","o","w","n","-","i","n","d","u","s","t","r","y">>
    /\ Succeeded(last)
    /\ last.response.json["highlight_projects"] =
           << <<"s","t","r","a","t","e","g","i","c","-","v","i","s","i","o","n","-","s","y","s","t","e","m","s","-","t","h","i","n","k","i","n","g","-","0">>,
              <<"a","i","-","t","e","c","h","n","o","l","o","g","y","-","i","n","n","o","v","a","t","i","o","n","-","0">> >>

\* C6: on a successful getProject, capabilities is the stored sequence if the
\* record has one and else the four default strings in order;
\* industry_applications is the stored sequence if present and else the three
\* default pairs in order; every other stored field except id is unchanged.
C6_Defaults ==
    (last.endpoint = "project" /\ Succeeded(last)) =>
        LET stored == SelectedProject(last.read, last.param)
            json   == last.response.json
            added  == {"id", "capabilities", "industry_applications"}
        IN  /\ DOMAIN json = (DOMAIN stored) \cup added
            /\ json["capabilities"] =
                 IF "capabilities" \in DOMAIN stored THEN stored["capabilities"]
                 ELSE << "Strategic vision and planning",
                         "Technical implementation expertise",
                         "Cross-functional team leadership",
                         "Innovation and creative problem-solving" >>
            /\ json["industry_applications"] =
                 IF "industry_applications" \in DOMAIN stored
                 THEN stored["industry_applications"]
                 ELSE DefaultIndustryApplications
            /\ Len(DefaultIndustryApplications) = 3
            /\ \A f \in (DOMAIN stored) \ added : json[f] = stored[f]

\* C6 happens: a project with its own capabilities and no industry
\* applications was returned
C6_Witness ==
    /\ last.endpoint = "project"
    /\ Succeeded(last)
    /\ last.response.json["capabilities"] = <<"Own capability">>
    /\ last.response.json["industry_applications"] = DefaultIndustryApplications
    /\ last.response.json["title"] = "Beta"

\* C7: each getCategories response lists one entry per category of the file
\* content read by that call, in file order, with id = slugify(name), name and
\* projectCount = length of the category's project list (0 without a list).
C7_Categories ==
    last.endpoint = "projects" =>
        LET cats == CategoriesOf(last.read)
        IN  last.response =
                jsonify([categories |->
                    [k \in 1..Len(cats) |->
                        [id |-> slugify(cats[k]["category"]),
                         name |-> cats[k]["category"],
                         projectCount |-> Len(ProjectsOf(cats[k]))]]])

\* C10: getProject consults only the first two "-"-separated parts: the
\* outcome for "{cat}-{i}-{anything}" and the project selected are those for
\* "{cat}-{i}", and on success the returned id is the full input.
C10_TrailingIgnored ==
    (last.endpoint = "project" /\ Len(split(last.param, "-")) >= 3) =>
        LET parts == split(last.param, "-")
            short == get_project_body(load_yaml_data(last.read),
                                      parts[1] \o <<"-">> \o parts[2]).response
        IN  /\ last.response.status = short.status
            /\ ~Succeeded(last) => last.response = short
            /\ Succeeded(last) =>
                   /\ last.response.json["id"] = last.param
                   /\ last.response.json = Put(short.json, "id", last.param)

\* C10 happens: an id with a trailing part resolved to a project
C10_Witness ==
    /\ last.endpoint = "project"
    /\ last.param = <<"c","a","t","-","1","-","e","x","t","r","a">>
    /\ Succeeded(last)
    /\ last.response.json["id"] = <<"c","a","t","-","1","-","e","x","t","r","a">>
    /\ last.response.json["title"] = "Gamma"

\* the state part of C8: a request that has loaded holds exactly what it read,
\* whatever other requests wrote into their objects meanwhile, and a response
\* is what the handler computes from the content read and the parameter alone
C8_State ==
    /\ \A r \in Requests :
          reqs[r].pc = "loaded" =>
              /\ reqs[r].slot \in DOMAIN heap
              /\ heap[reqs[r].slot] = load_yaml_data(reqs[r].read)
    /\ last.endpoint \in {"projects", "category", "project"} =>
          last.response =
              Body(last.endpoint, load_yaml_data(last.read), last.param).response

\* C8: requests share no mutable state and no endpoint changes stored data:
\* a step of a request leaves the disk as it is, the response to a request is
\* a function of the content it read and its parameter, and the ids and
\* defaults a handler writes into its loaded records reach no other request.
C8_Isolation == [][reqs' # reqs => disk' = disk]_vars /\ []C8_State

\* C8 happens: getProject has written an id and defaults into its records
\* and answered while another request held the same content, loaded
C8_Witness ==
    /\ last.endpoint = "project"
    /\ Succeeded(last)
    /\ "capabilities" \notin DOMAIN SelectedProject(last.read, last.param)
    /\ \E r \in Requests :
          /\ reqs[r].pc = "loaded"
          /\ reqs[r].endpoint = "category"
          /\ reqs[r].read = last.read

\* C9: slugify is idempotent, and every id getCategories lists is accepted
\* by getCategoryProjects, which answers with a category of that slug.
C9_SlugStable ==
    /\ stage = "twice" => (slug1 = slugify(label) /\ slug2 = slug1)
    /\ last.endpoint = "category" =>
          /\ last.response.status # 404
          /\ Succeeded(last)
          /\ slugify(last.response.json["category"]) = last.param

\* C9 happens: a label with " & " was slugified twice, and the id listed for
\* it was looked up
C9_Witness ==
    /\ stage = "twice"
    /\ label = <<" ", "&", " ", "A">>
    /\ slug2 = <<"-", "a">>
    /\ last.endpoint = "category"
    /\ last.param = <<"-", "a">>
    /\ Succeeded(last)
====
